---- MODULE Spec2Model ----
(***************************************************************************)
(* Model of pkg/devicemapper/devmapper.go: the library operations that     *)
(* build a device-mapper task, run it against the native engine, classify  *)
(* a failed run through the process-wide dmSawBusy / dmSawExist flags and  *)
(* wait on the udev cookie.  Each operation is a sequence of steps, one    *)
(* per native call; the native engine is a nondeterministic collaborator.  *)
(***************************************************************************)
EXTENDS Integers, Sequences, FiniteSets, TLC

\* ------------------------------------------------------------------ bounds
\* thin device ids the engine can hold are 0..MaxId; larger ids are rejected
MaxId == 3
\* udev cookies the engine hands out are 1..MaxCookie
MaxCookie == 2
\* a caller of the Task methods makes at most MaxCalls calls on one task
MaxCalls == 3

Ids == 0 .. MaxId
Cookies == 1 .. MaxCookie
\* the transaction ids SetTransactionId moves the pool's metadata between
TransactionIds == {0, 1}
\* the thin device that snapshots are taken of
BaseIds == {0}
Threads == {"t1", "t2"}
Names == {"pool", "base"}
poolName == "pool"
baseName == "base"

VARIABLES
    devs,        \* engine: device name -> [exists, suspended]
    thinIds,     \* engine: thin device ids taken in the pool's metadata
    pool,        \* engine: the pool's transaction id, whether a reloaded table waits,
                 \* and whether its metadata holds every id (allTaken)
    dmSawBusy,   \* process-wide capture flag
    dmSawExist,  \* process-wide capture flag
    callers,     \* the threads that call the library
    serial,      \* TRUE when callers hold one global lock around each operation
    lock,        \* the thread holding that lock, or "" when free
    th           \* per thread: the operation in progress, its locals and its history

vars == <<devs, thinIds, pool, dmSawBusy, dmSawExist, callers, serial, lock, th>>

\* ------------------------------------------------------------------ history
\* One record shape for every event of a call's history.
Ev(e, k, n, ok) == [e |-> e, k |-> k, n |-> n, ok |-> ok, exist |-> FALSE]
EvCall(f) == Ev("call", f, 0, TRUE)
EvRet(f, res) == Ev("ret", f, 0, res = "nil")
EvTask(kind) == Ev("task", kind, 0, TRUE)
EvSetCookie(c) == Ev("setcookie", "", c, TRUE)
EvWait(c, ok) == Ev("wait", "", c, ok)
EvNative(call, ok) == Ev("native", call, 0, ok)
EvGetInfo(ok) == Ev("getinfo", "", 0, ok)
EvGetNextTarget(next) == Ev("nexttarget", "", next, TRUE)
EvRun(kind, n, o) == [e |-> "run", k |-> kind, n |-> n, ok |-> o.ok, exist |-> o.exist]
\* what the engine logged during the latest run of a thread's task
Logged(o) == [busy |-> o.busy, exist |-> o.exist]
NoLog == [busy |-> FALSE, exist |-> FALSE]

\* positions of the events of kind e in a history
Pos(tr, e) == {i \in DOMAIN tr : tr[i].e = e}
\* positions of the events of kind e and detail k
PosK(tr, e, k) == {i \in DOMAIN tr : tr[i].e = e /\ tr[i].k = k}
\* the history of the innermost call of function f: what follows its last call event
Frame(tr, f) ==
    LET cs == PosK(tr, "call", f)
        from == IF cs = {} THEN 1 ELSE CHOOSE i \in cs : \A j \in cs : j <= i
    IN  SubSeq(tr, from, Len(tr))

\* ------------------------------------------------------------------ state
Idle ==
    [op |-> "", fn |-> "", pc |-> "idle", ret |-> "", name |-> "",
     deviceId |-> 0, start |-> 0, baseDeviceId |-> 0, oldId |-> 0, newId |-> 0,
     tasktype |-> "", arg |-> "", calls |-> 0,
     doSuspend |-> FALSE, devinfo |-> "nil", cookie |-> 0, deferred |-> <<>>,
     runErr |-> FALSE, logged |-> NoLog, saw0 |-> NoLog, suspended0 |-> FALSE, err |-> "nil", res |-> "nil", T0 |-> {}, trace |-> <<>>]

InitCommon ==
    /\ devs = [n \in Names |-> [exists |-> FALSE, suspended |-> FALSE]]
    /\ thinIds = {}
    /\ pool = [transactionId |-> 0, inactiveTable |-> FALSE, allTaken |-> FALSE]
    /\ dmSawBusy = FALSE
    /\ dmSawExist = FALSE
    /\ lock = ""
    /\ th = [t \in Threads |-> Idle]

\* One caller: the operations run one after another.
Init == InitCommon /\ callers = {"t1"} /\ serial = TRUE

\* Two callers, which either hold one global lock around each operation or
\* call the library without any serialization.
\* One caller and a pool that exists with ids 0 .. k-1 taken, or with every id
\* of an id space without end taken; the origin is active when its id is there.
InitLive ==
    /\ \E k \in 0 .. (MaxId + 1), all \in BOOLEAN, base \in BOOLEAN :
         /\ thinIds = 0 .. (k - 1)
         /\ pool = [transactionId |-> 0, inactiveTable |-> FALSE, allTaken |-> all]
         /\ devs = [n \in Names |->
                      [exists |-> (n = poolName \/ (base /\ k > 0)), suspended |-> FALSE]]
    /\ dmSawBusy = FALSE
    /\ dmSawExist = FALSE
    /\ lock = ""
    /\ th = [t \in Threads |-> Idle]
    /\ callers = {"t1"}
    /\ serial = TRUE

\* The pool exists and the last id of its id space is taken.
InitConcurrent ==
    /\ devs = [n \in Names |-> [exists |-> n = poolName, suspended |-> FALSE]]
    /\ thinIds = {MaxId}
    /\ pool = [transactionId |-> 0, inactiveTable |-> FALSE, allTaken |-> FALSE]
    /\ dmSawBusy = FALSE
    /\ dmSawExist = FALSE
    /\ lock = ""
    /\ th = [t \in Threads |-> Idle]
    /\ callers = Threads
    /\ serial \in BOOLEAN

At(t, f, l) == th[t].fn = f /\ th[t].pc = l
Set(t, r) == th' = [th EXCEPT ![t] = r]
Log(s, ev) == Append(s.trace, ev)

Engine == <<devs, thinIds, pool>>
Flags == <<dmSawBusy, dmSawExist>>
Locks == <<callers, serial, lock>>

\* ------------------------------------------------------------------ engine
\* The outcomes the native engine can give a task run in the current state:
\* success when the task's precondition holds, failure at any time; a failed
\* run may log "busy", and a failed create message logs "File exists" only
\* for an id that is taken.  An id above MaxId is outside the id space: the
\* engine rejects it.  A pool with allTaken is the engine of an id space
\* without end in which every id is taken: no create message succeeds and
\* each may fail with "File exists".
RunOkPool(d, ids, p) ==
    [ok |-> TRUE, busy |-> FALSE, exist |-> FALSE, devs |-> d, thinIds |-> ids, pool |-> p]
RunOk(d, ids) == RunOkPool(d, ids, pool)
RunFail(b, x) ==
    [ok |-> FALSE, busy |-> b, exist |-> x, devs |-> devs, thinIds |-> thinIds, pool |-> pool]
RunFailures(mayExist) == {RunFail(b, x) : b \in BOOLEAN, x \in {FALSE, mayExist}}
DevUp(name, ex, su) == [devs EXCEPT ![name] = [exists |-> ex, suspended |-> su]]

DmTaskRun(kind, name, msg, id, base) ==
    CASE kind = "DeviceCreate" ->
           RunFailures(FALSE) \cup
           IF /\ ~devs[name].exists
              /\ (name = baseName => devs[poolName].exists /\ id \in thinIds)
           THEN {RunOk(DevUp(name, TRUE, FALSE), thinIds)} ELSE {}
      [] kind = "DeviceRemove" ->
           RunFailures(FALSE) \cup
           IF /\ devs[name].exists
              /\ (name = poolName => ~devs[baseName].exists)
           THEN {RunOkPool(DevUp(name, FALSE, FALSE), thinIds,
                           IF name = poolName THEN [pool EXCEPT !.inactiveTable = FALSE]
                           ELSE pool)}
           ELSE {}
      [] kind = "DeviceReload" ->
           RunFailures(FALSE) \cup
           IF devs[name].exists
           THEN {RunOkPool(devs, thinIds, [pool EXCEPT !.inactiveTable = TRUE])} ELSE {}
      [] kind = "DeviceStatus" ->
           RunFailures(FALSE) \cup {RunOk(devs, thinIds)}
      [] kind = "DeviceSuspend" ->
           RunFailures(FALSE) \cup
           IF devs[name].exists THEN {RunOk(DevUp(name, TRUE, TRUE), thinIds)} ELSE {}
      [] kind = "DeviceResume" ->
           RunFailures(FALSE) \cup
           IF devs[name].exists THEN {RunOk(DevUp(name, TRUE, FALSE), thinIds)} ELSE {}
      [] kind = "DeviceInfo" ->
           RunFailures(FALSE) \cup {RunOk(devs, thinIds)}
      [] kind = "DeviceTargetMsg" /\ msg = "create_thin" ->
           RunFailures(id \in thinIds \/ pool.allTaken) \cup
           IF devs[name].exists /\ id <= MaxId /\ id \notin thinIds /\ ~pool.allTaken
           THEN {RunOk(devs, thinIds \cup {id})} ELSE {}
      [] kind = "DeviceTargetMsg" /\ msg = "create_snap" ->
           RunFailures(id \in thinIds \/ pool.allTaken) \cup
           IF /\ devs[name].exists /\ id <= MaxId /\ id \notin thinIds /\ base \in thinIds
              /\ ~pool.allTaken
           THEN {RunOk(devs, thinIds \cup {id})} ELSE {}
      [] kind = "DeviceTargetMsg" /\ msg = "delete" ->
           RunFailures(FALSE) \cup
           IF devs[name].exists /\ id \in thinIds
           THEN {RunOk(devs, thinIds \ {id})} ELSE {}
      [] kind = "DeviceTargetMsg" /\ msg = "set_transaction_id" ->
           RunFailures(FALSE) \cup
           IF devs[name].exists /\ pool.transactionId = id
           THEN {RunOkPool(devs, thinIds, [pool EXCEPT !.transactionId = base])} ELSE {}

\* The log callback: a logged "busy" sets dmSawBusy, a logged "File exists"
\* sets dmSawExist; nothing clears them.
DevmapperLogCallback(o) ==
    /\ dmSawBusy' = (dmSawBusy \/ o.busy)
    /\ dmSawExist' = (dmSawExist \/ o.exist)

\* task.Run(): the engine runs the task; the callback captures what it logged.
Run(t, next, kind, name, msg, id, base) ==
    \E o \in DmTaskRun(kind, name, msg, id, base) :
        /\ devs' = o.devs
        /\ thinIds' = o.thinIds
        /\ pool' = o.pool
        /\ DevmapperLogCallback(o)
        /\ Set(t, [th[t] EXCEPT !.runErr = ~o.ok, !.pc = next, !.logged = Logged(o),
                                !.trace = Log(th[t], EvRun(kind, id, o))])

\* ------------------------------------------------------------------ helpers
\* Leaving a function: its deferred calls run first.
ExitPc(s) == IF s.deferred # <<>> THEN "UdevWait" ELSE "ret"
ReturnFrom(s, e) == [s EXCEPT !.res = e, !.pc = ExitPc(s)]

\* TaskCreateNamed: nil task with an error when DmTaskCreate or SetName fails.
TaskCreateNamed(kind, name) ==
    { [task |-> TRUE, err |-> "nil"],
      [task |-> FALSE, err |-> "Can't create task of type " \o kind],
      [task |-> FALSE, err |-> "Can't set task name " \o name] }

\* Kept for the history of a call: the engine's ids (T0) as the call found
\* them, the capture flag the operation is about to reset (saw0), and for
\* CreateSnapDevice whether the origin was suspended already (suspended0).
Saw0(f) ==
    [busy |-> (f = "RemoveDevice" /\ dmSawBusy), exist |-> (f = "CreateDevice" /\ dmSawExist)]

\* The first statement of each operation.
FirstPc(f) == IF f = "CreateSnapDevice" THEN "GetInfo" ELSE "TaskCreateNamed"

\* (mutant) a caller starts an operation while another holds the lock
Begin_NoLock(t, f, r) ==
    /\ t \in callers
    /\ th[t].pc = "idle"
    /\ lock' = IF serial THEN t ELSE lock
    /\ Set(t, [r EXCEPT !.op = f, !.fn = f, !.pc = FirstPc(f),
                        !.start = r.deviceId,
                        !.saw0 = Saw0(f),
                        !.suspended0 = (f = "CreateSnapDevice" /\ devs[baseName].suspended),
                        !.T0 = thinIds, !.trace = <<EvCall(f)>>])
    /\ UNCHANGED <<Engine, Flags, callers, serial>>

\* A caller starts operation f: it takes the global lock when callers serialize.
Begin(t, f, r) ==
    /\ t \in callers
    /\ th[t].pc = "idle"
    /\ serial => lock = ""
    /\ lock' = IF serial THEN t ELSE lock
    /\ Set(t, [r EXCEPT !.op = f, !.fn = f, !.pc = FirstPc(f),
                        !.start = r.deviceId,
                        !.saw0 = Saw0(f),
                        !.suspended0 = (f = "CreateSnapDevice" /\ devs[baseName].suspended),
                        !.T0 = thinIds, !.trace = <<EvCall(f)>>])
    /\ UNCHANGED <<Engine, Flags, callers, serial>>

\* A step of function f at label l that only changes the thread's own state.
Local(t, r) == Set(t, r) /\ UNCHANGED <<Engine, Flags, Locks>>

\* task, err := TaskCreateNamed(kind, name); if task == nil { return err }
CreateTask(t, f, kind, name, next) ==
    /\ At(t, f, "TaskCreateNamed")
    /\ \E o \in TaskCreateNamed(kind, name) :
         Local(t, IF o.task
                  THEN [th[t] EXCEPT !.pc = next, !.trace = Log(th[t], EvTask(kind))]
                  ELSE ReturnFrom(th[t], o.err))

\* if err := task.<setter>(...); err != nil { return fmt.Errorf(msg) }
Config(t, f, l, msg, next) ==
    /\ At(t, f, l)
    /\ \E ok \in BOOLEAN :
         Local(t, IF ok THEN [th[t] EXCEPT !.pc = next] ELSE ReturnFrom(th[t], msg))

\* (mutant) the wait is deferred before SetCookie has stored the cookie
SetCookieDefer_DeferFirst(t, f, msg, next) ==
    /\ At(t, f, "SetCookie")
    /\ \/ Local(t, ReturnFrom([th[t] EXCEPT !.deferred = <<0>>], msg))
       \/ \E c \in Cookies :
            Local(t, [th[t] EXCEPT !.cookie = c, !.deferred = <<0>>, !.pc = next,
                                   !.trace = Log(th[t], EvSetCookie(c))])

\* var cookie uint = 0; task.SetCookie(&cookie, flags); defer UdevWait(cookie)
\* The deferred call's argument is evaluated at the defer statement.
SetCookieDefer(t, f, msg, next) ==
    /\ At(t, f, "SetCookie")
    /\ \/ Local(t, ReturnFrom(th[t], msg))
       \/ \E c \in Cookies :
            Local(t, [th[t] EXCEPT !.cookie = c, !.deferred = <<c>>, !.pc = next,
                                   !.trace = Log(th[t], EvSetCookie(c))])

\* if err := task.Run(); err != nil { return fmt.Errorf(msg) }; return nil
ReturnRun(t, f, msg) ==
    /\ At(t, f, "Return")
    /\ Local(t, ReturnFrom(th[t], IF th[t].runErr THEN msg ELSE "nil"))

\* ------------------------------------------------------------------ UdevWait
\* The deferred UdevWait(cookie) runs as the function leaves; its result is
\* dropped and the function's return value stays as it was.
DeferredUdevWait(t) ==
    /\ th[t].pc = "UdevWait"
    /\ \E ok \in BOOLEAN :
         Local(t, [th[t] EXCEPT !.deferred = Tail(@), !.pc = "ret",
                                !.trace = Log(th[t], EvWait(Head(th[t].deferred), ok))])

\* ------------------------------------------------------------------ return
Done(t) == th[t].pc = "ret" /\ th[t].fn = th[t].op
Returned(t, f) == th[t].pc = "ret" /\ th[t].fn = f

\* A called function returns into its caller.
ReturnToCaller(t) ==
    /\ th[t].pc = "ret" /\ th[t].fn # th[t].op
    /\ Local(t, [th[t] EXCEPT !.fn = th[t].op, !.pc = th[t].ret, !.ret = "",
                              !.runErr = FALSE, !.logged = NoLog, !.cookie = 0,
                              !.trace = Log(th[t], EvRet(th[t].fn, th[t].res))])

\* The operation returns to the library's caller, who releases the lock.
Finish(t) ==
    /\ Done(t)
    /\ Set(t, Idle)
    /\ lock' = IF serial THEN "" ELSE lock
    /\ UNCHANGED <<Engine, Flags, callers, serial>>

\* ------------------------------------------------------------------ RemoveDevice
Call_RemoveDevice(t) ==
    \E name \in Names : Begin(t, "RemoveDevice", [Idle EXCEPT !.name = name])

RemoveDevice_TaskCreateNamed(t) ==
    CreateTask(t, "RemoveDevice", "DeviceRemove", th[t].name, "SetCookie")

RemoveDevice_SetCookie(t) ==
    SetCookieDefer(t, "RemoveDevice", "Can not set cookie", "Reset")

\* (mutant) the run starts without the reset of dmSawBusy
RemoveDevice_Reset_Missing(t) ==
    /\ At(t, "RemoveDevice", "Reset")
    /\ Set(t, [th[t] EXCEPT !.pc = "Run"])
    /\ UNCHANGED <<Engine, Flags, Locks>>

\* dmSawBusy = false // reset before the task is run
RemoveDevice_Reset(t) ==
    /\ At(t, "RemoveDevice", "Reset")
    /\ dmSawBusy' = FALSE
    /\ Set(t, [th[t] EXCEPT !.pc = "Run"])
    /\ UNCHANGED <<Engine, dmSawExist, Locks>>

RemoveDevice_Run(t) ==
    /\ At(t, "RemoveDevice", "Run")
    /\ Run(t, "Classify", "DeviceRemove", th[t].name, "", 0, 0)
    /\ UNCHANGED Locks

\* if dmSawBusy { return ErrBusy }; return fmt.Errorf("Error running RemoveDevice")
RemoveDevice_Classify(t) ==
    /\ At(t, "RemoveDevice", "Classify")
    /\ Local(t, ReturnFrom(th[t],
                  IF ~th[t].runErr THEN "nil"
                  ELSE IF dmSawBusy THEN "ErrBusy"
                  ELSE "Error running RemoveDevice"))

\* ------------------------------------------------------------------ ResumeDevice
Call_ResumeDevice(t) ==
    Begin(t, "ResumeDevice", [Idle EXCEPT !.name = baseName])

ResumeDevice_TaskCreateNamed(t) ==
    CreateTask(t, "ResumeDevice", "DeviceResume", th[t].name, "SetCookie")

ResumeDevice_SetCookie(t) ==
    SetCookieDefer(t, "ResumeDevice", "Can't set cookie", "Run")

ResumeDevice_Run(t) ==
    /\ At(t, "ResumeDevice", "Run")
    /\ Run(t, "Return", "DeviceResume", th[t].name, "", 0, 0)
    /\ UNCHANGED Locks

ResumeDevice_Return(t) ==
    ReturnRun(t, "ResumeDevice", "Error running DeviceResume")

\* ------------------------------------------------------------------ SuspendDevice
Call_SuspendDevice(t) ==
    Begin(t, "SuspendDevice", [Idle EXCEPT !.name = baseName])

SuspendDevice_TaskCreateNamed(t) ==
    CreateTask(t, "SuspendDevice", "DeviceSuspend", th[t].name, "Run")

SuspendDevice_Run(t) ==
    /\ At(t, "SuspendDevice", "Run")
    /\ Run(t, "Return", "DeviceSuspend", th[t].name, "", 0, 0)
    /\ UNCHANGED Locks

SuspendDevice_Return(t) ==
    ReturnRun(t, "SuspendDevice", "Error running DeviceSuspend")

\* ------------------------------------------------------------------ GetInfo
\* The history keeps the call and the return of a query, not its task.
GetInfo_TaskCreateNamed(t) ==
    /\ At(t, "GetInfo", "TaskCreateNamed")
    /\ \E o \in TaskCreateNamed("DeviceInfo", th[t].name) :
         Local(t, IF o.task THEN [th[t] EXCEPT !.pc = "Run"] ELSE ReturnFrom(th[t], o.err))

\* if err := task.Run(); err != nil { return nil, err }
\* A successful run leaves the device's state at that moment in the task.
GetInfo_Run(t) ==
    /\ At(t, "GetInfo", "Run")
    /\ \E o \in DmTaskRun("DeviceInfo", th[t].name, "", 0, 0) :
         /\ DevmapperLogCallback(o)
         /\ Set(t, IF o.ok
                   THEN [th[t] EXCEPT !.pc = "GetInfo",
                            !.devinfo = IF devs[th[t].name].exists THEN "exists" ELSE "absent"]
                   ELSE [th[t] EXCEPT !.pc = "ret", !.res = "ErrTaskRun"])
    /\ UNCHANGED <<Engine, Locks>>

\* return task.GetInfo(): nil and ErrTaskGetInfo when DmTaskGetInfo fails
GetInfo_GetInfo(t) ==
    /\ At(t, "GetInfo", "GetInfo")
    /\ \E ok \in BOOLEAN :
         Local(t, IF ok THEN ReturnFrom(th[t], "nil")
                  ELSE ReturnFrom([th[t] EXCEPT !.devinfo = "nil"], "ErrTaskGetInfo"))

\* ------------------------------------------------------------------ CreatePool
Call_CreatePool(t) ==
    Begin(t, "CreatePool", [Idle EXCEPT !.name = poolName])

CreatePool_TaskCreateNamed(t) ==
    CreateTask(t, "CreatePool", "DeviceCreate", poolName, "GetBlockDeviceSize")

CreatePool_GetBlockDeviceSize(t) ==
    Config(t, "CreatePool", "GetBlockDeviceSize", "Can't get data size", "AddTarget")

CreatePool_AddTarget(t) ==
    Config(t, "CreatePool", "AddTarget", "Can't add target", "SetCookie")

CreatePool_SetCookie(t) ==
    SetCookieDefer(t, "CreatePool", "Can't set cookie", "Run")

CreatePool_Run(t) ==
    /\ At(t, "CreatePool", "Run")
    /\ Run(t, "Return", "DeviceCreate", poolName, "", 0, 0)
    /\ UNCHANGED Locks

CreatePool_Return(t) ==
    ReturnRun(t, "CreatePool", "Error running DeviceCreate (CreatePool)")

\* ------------------------------------------------------------------ ActivateDevice
Call_ActivateDevice(t) ==
    \E id \in Ids :
        Begin(t, "ActivateDevice", [Idle EXCEPT !.name = baseName, !.deviceId = id])

ActivateDevice_TaskCreateNamed(t) ==
    CreateTask(t, "ActivateDevice", "DeviceCreate", th[t].name, "AddTarget")

ActivateDevice_AddTarget(t) ==
    Config(t, "ActivateDevice", "AddTarget", "Can't add target", "SetAddNode")

ActivateDevice_SetAddNode(t) ==
    Config(t, "ActivateDevice", "SetAddNode", "Can't add node", "SetCookie")

ActivateDevice_SetCookie(t) ==
    SetCookieDefer(t, "ActivateDevice", "Can't set cookie", "Run")

ActivateDevice_Run(t) ==
    /\ At(t, "ActivateDevice", "Run")
    /\ Run(t, "Return", "DeviceCreate", th[t].name, "", th[t].deviceId, 0)
    /\ UNCHANGED Locks

ActivateDevice_Return(t) ==
    ReturnRun(t, "ActivateDevice", "Error running DeviceCreate (ActivateDevice)")

\* ------------------------------------------------------------------ DeleteDevice
Call_DeleteDevice(t) ==
    \E id \in Ids :
        Begin(t, "DeleteDevice", [Idle EXCEPT !.name = poolName, !.deviceId = id])

DeleteDevice_TaskCreateNamed(t) ==
    CreateTask(t, "DeleteDevice", "DeviceTargetMsg", poolName, "SetSector")

DeleteDevice_SetSector(t) ==
    Config(t, "DeleteDevice", "SetSector", "Can't set sector", "SetMessage")

\* (mutant) a task whose SetMessage failed is run before the error is returned
DeleteDevice_SetMessage_RunsAnyway(t) ==
    /\ At(t, "DeleteDevice", "SetMessage")
    /\ \/ Local(t, [th[t] EXCEPT !.pc = "Run"])
       \/ \E o \in DmTaskRun("DeviceTargetMsg", poolName, "delete", th[t].deviceId, 0) :
            /\ devs' = o.devs /\ thinIds' = o.thinIds /\ pool' = o.pool
            /\ DevmapperLogCallback(o)
            /\ Set(t, ReturnFrom([th[t] EXCEPT !.trace = Log(th[t], EvRun("DeviceTargetMsg",
                                                                th[t].deviceId, o))],
                                 "Can't set message"))
            /\ UNCHANGED Locks

DeleteDevice_SetMessage(t) ==
    Config(t, "DeleteDevice", "SetMessage", "Can't set message", "Run")

DeleteDevice_Run(t) ==
    /\ At(t, "DeleteDevice", "Run")
    /\ Run(t, "Return", "DeviceTargetMsg", poolName, "delete", th[t].deviceId, 0)
    /\ UNCHANGED Locks

DeleteDevice_Return(t) ==
    ReturnRun(t, "DeleteDevice", "Error running DeleteDevice")

\* ------------------------------------------------------------------ ReloadPool
Call_ReloadPool(t) ==
    Begin(t, "ReloadPool", [Idle EXCEPT !.name = poolName])

ReloadPool_TaskCreateNamed(t) ==
    CreateTask(t, "ReloadPool", "DeviceReload", poolName, "GetBlockDeviceSize")

ReloadPool_GetBlockDeviceSize(t) ==
    Config(t, "ReloadPool", "GetBlockDeviceSize", "Can't get data size", "AddTarget")

ReloadPool_AddTarget(t) ==
    Config(t, "ReloadPool", "AddTarget", "Can't add target", "Run")

ReloadPool_Run(t) ==
    /\ At(t, "ReloadPool", "Run")
    /\ Run(t, "Return", "DeviceReload", poolName, "", 0, 0)
    /\ UNCHANGED Locks

ReloadPool_Return(t) ==
    ReturnRun(t, "ReloadPool", "Error running DeviceCreate")

\* ------------------------------------------------------------------ SetTransactionId
Call_SetTransactionId(t) ==
    \E oldId \in TransactionIds, newId \in TransactionIds :
        Begin(t, "SetTransactionId",
              [Idle EXCEPT !.name = poolName, !.oldId = oldId, !.newId = newId])

SetTransactionId_TaskCreateNamed(t) ==
    CreateTask(t, "SetTransactionId", "DeviceTargetMsg", poolName, "SetSector")

SetTransactionId_SetSector(t) ==
    Config(t, "SetTransactionId", "SetSector", "Can't set sector", "SetMessage")

SetTransactionId_SetMessage(t) ==
    Config(t, "SetTransactionId", "SetMessage", "Can't set message", "Run")

SetTransactionId_Run(t) ==
    /\ At(t, "SetTransactionId", "Run")
    /\ Run(t, "Return", "DeviceTargetMsg", poolName, "set_transaction_id",
           th[t].oldId, th[t].newId)
    /\ UNCHANGED Locks

SetTransactionId_Return(t) ==
    ReturnRun(t, "SetTransactionId", "Error running SetTransactionId")

\* ------------------------------------------------------------------ GetStatus
Call_GetStatus(t) ==
    \E name \in Names : Begin(t, "GetStatus", [Idle EXCEPT !.name = name])

GetStatus_TaskCreateNamed(t) ==
    CreateTask(t, "GetStatus", "DeviceStatus", th[t].name, "Run")

\* if err := task.Run(); err != nil { return 0, 0, "", "", err }
\* A successful run leaves the device's state at that moment in the task.
GetStatus_Run(t) ==
    /\ At(t, "GetStatus", "Run")
    /\ \E o \in DmTaskRun("DeviceStatus", th[t].name, "", 0, 0) :
         /\ DevmapperLogCallback(o)
         /\ LET s == [th[t] EXCEPT !.runErr = ~o.ok, !.logged = Logged(o),
                                   !.trace = Log(th[t], EvRun("DeviceStatus", 0, o))]
            IN  Set(t, IF o.ok
                       THEN [s EXCEPT !.pc = "GetInfo",
                                !.devinfo = IF devs[th[t].name].exists THEN "exists"
                                            ELSE "absent"]
                       ELSE ReturnFrom(s, "ErrTaskRun"))
    /\ UNCHANGED <<Engine, Locks>>

\* devinfo, err := task.GetInfo(); if err != nil { return 0, 0, "", "", err }
GetStatus_GetInfo(t) ==
    /\ At(t, "GetStatus", "GetInfo")
    /\ \E ok \in BOOLEAN :
         LET s == [th[t] EXCEPT !.trace = Log(th[t], EvGetInfo(ok))]
         IN  Local(t, IF ok THEN [s EXCEPT !.pc = "Exists"]
                      ELSE ReturnFrom([s EXCEPT !.devinfo = "nil"], "ErrTaskGetInfo"))

\* (mutant) the next target is read whatever the info says
GetStatus_Exists_Unchecked(t) ==
    /\ At(t, "GetStatus", "Exists")
    /\ Local(t, [th[t] EXCEPT !.pc = "GetNextTarget"])

\* if devinfo.Exists == 0 { return 0, 0, "", "", fmt.Errorf("Non existing device %s", name) }
GetStatus_Exists(t) ==
    /\ At(t, "GetStatus", "Exists")
    /\ Local(t, IF th[t].devinfo = "absent" THEN ReturnFrom(th[t], "Non existing device")
                ELSE [th[t] EXCEPT !.pc = "GetNextTarget"])

\* _, start, length, targetType, params := task.GetNextTarget(0); return ..., nil
GetStatus_GetNextTarget(t) ==
    /\ At(t, "GetStatus", "GetNextTarget")
    /\ Local(t, ReturnFrom([th[t] EXCEPT !.trace = Log(th[t], EvGetNextTarget(0))], "nil"))

\* ------------------------------------------------------------------ CreateDevice
Call_CreateDevice(t) ==
    \E id \in Ids :
        Begin(t, "CreateDevice", [Idle EXCEPT !.name = poolName, !.deviceId = id])

\* A caller asks for the last id of the id space.
Call_CreateDevice_LastId(t) ==
    Begin(t, "CreateDevice", [Idle EXCEPT !.name = poolName, !.deviceId = MaxId])

CreateDevice_TaskCreateNamed(t) ==
    CreateTask(t, "CreateDevice", "DeviceTargetMsg", poolName, "SetSector")

CreateDevice_SetSector(t) ==
    Config(t, "CreateDevice", "SetSector", "Can't set sector", "SetMessage")

CreateDevice_SetMessage(t) ==
    Config(t, "CreateDevice", "SetMessage", "Can't set message", "Reset")

\* dmSawExist = false // reset before the task is run
CreateDevice_Reset(t) ==
    /\ At(t, "CreateDevice", "Reset")
    /\ dmSawExist' = FALSE
    /\ Set(t, [th[t] EXCEPT !.pc = "Run"])
    /\ UNCHANGED <<Engine, dmSawBusy, Locks>>

CreateDevice_Run(t) ==
    /\ At(t, "CreateDevice", "Run")
    /\ Run(t, "Classify", "DeviceTargetMsg", poolName, "create_thin", th[t].deviceId, 0)
    /\ UNCHANGED Locks

\* (mutant) the retry skips an id
CreateDevice_Classify_SkipsId(t) ==
    /\ At(t, "CreateDevice", "Classify")
    /\ Local(t, IF ~th[t].runErr THEN ReturnFrom(th[t], "nil")
                ELSE IF dmSawExist
                THEN [th[t] EXCEPT !.deviceId = @ + 2, !.pc = "TaskCreateNamed"]
                ELSE ReturnFrom(th[t], "Error running CreateDevice"))

\* (mutant) the loop gives up after a collision
CreateDevice_Classify_GivesUp(t) ==
    /\ At(t, "CreateDevice", "Classify")
    /\ Local(t, IF ~th[t].runErr THEN ReturnFrom(th[t], "nil")
                ELSE ReturnFrom(th[t], "Error running CreateDevice"))

\* if dmSawExist { *deviceId++; continue }; return fmt.Errorf(...); break; return nil
CreateDevice_Classify(t) ==
    /\ At(t, "CreateDevice", "Classify")
    /\ Local(t, IF ~th[t].runErr THEN ReturnFrom(th[t], "nil")
                ELSE IF dmSawExist
                THEN [th[t] EXCEPT !.deviceId = @ + 1, !.pc = "TaskCreateNamed"]
                ELSE ReturnFrom(th[t], "Error running CreateDevice"))

\* ------------------------------------------------------------------ CreateSnapDevice
\* A call of function g from the operation: control comes back at label l.
CallFn(s, g, l) ==
    [s EXCEPT !.fn = g, !.pc = "TaskCreateNamed", !.ret = l, !.trace = Log(s, EvCall(g))]

\* (mutant) an error path that returns without resuming the origin
Rollback_NoResume(s, e) == ReturnFrom(s, e)

\* if doSuspend { ResumeDevice(baseName) }; return e
Rollback(s, e) ==
    IF s.doSuspend
    THEN CallFn([s EXCEPT !.err = e], "ResumeDevice", "ReturnErr")
    ELSE ReturnFrom(s, e)

\* devinfo, _ := GetInfo(baseName)
Call_CreateSnapDevice(t) ==
    /\ \E id \in Ids, base \in BaseIds :
         Begin(t, "CreateSnapDevice",
               [Idle EXCEPT !.name = baseName, !.deviceId = id, !.baseDeviceId = base])

CreateSnapDevice_GetInfo(t) ==
    /\ At(t, "CreateSnapDevice", "GetInfo")
    /\ Local(t, CallFn(th[t], "GetInfo", "doSuspend"))

\* (mutant) doSuspend ignores devinfo.Exists
CreateSnapDevice_doSuspend_AnyInfo(t) ==
    /\ At(t, "CreateSnapDevice", "doSuspend")
    /\ Local(t, IF th[t].devinfo # "nil"
                THEN CallFn([th[t] EXCEPT !.doSuspend = TRUE], "SuspendDevice", "Suspended")
                ELSE [th[t] EXCEPT !.doSuspend = FALSE, !.res = "nil",
                                   !.pc = "TaskCreateNamed"])

\* doSuspend := devinfo != nil && devinfo.Exists != 0
\* if doSuspend { if err := SuspendDevice(baseName); err != nil { return err } }
CreateSnapDevice_doSuspend(t) ==
    /\ At(t, "CreateSnapDevice", "doSuspend")
    /\ Local(t, IF th[t].devinfo = "exists"
                THEN CallFn([th[t] EXCEPT !.doSuspend = TRUE], "SuspendDevice", "Suspended")
                ELSE [th[t] EXCEPT !.doSuspend = FALSE, !.res = "nil",
                                   !.pc = "TaskCreateNamed"])

CreateSnapDevice_Suspended(t) ==
    /\ At(t, "CreateSnapDevice", "Suspended")
    /\ Local(t, IF th[t].res # "nil" THEN ReturnFrom(th[t], th[t].res)
                ELSE [th[t] EXCEPT !.pc = "TaskCreateNamed"])

\* task, err := TaskCreateNamed(DeviceTargetMsg, poolName)
\* if task == nil { if doSuspend { ResumeDevice(baseName) }; return err }
CreateSnapDevice_TaskCreateNamed(t) ==
    /\ At(t, "CreateSnapDevice", "TaskCreateNamed")
    /\ \E o \in TaskCreateNamed("DeviceTargetMsg", poolName) :
         Local(t, IF o.task
                  THEN [th[t] EXCEPT !.pc = "SetSector",
                                     !.trace = Log(th[t], EvTask("DeviceTargetMsg"))]
                  ELSE Rollback(th[t], o.err))

CreateSnapDevice_SetSector(t) ==
    /\ At(t, "CreateSnapDevice", "SetSector")
    /\ \E ok \in BOOLEAN :
         Local(t, IF ok THEN [th[t] EXCEPT !.pc = "SetMessage"]
                  ELSE Rollback(th[t], "Can't set sector"))

\* (mutant) the SetMessage failure returns without the rollback
CreateSnapDevice_SetMessage_NoRollback(t) ==
    /\ At(t, "CreateSnapDevice", "SetMessage")
    /\ \E ok \in BOOLEAN :
         Local(t, IF ok THEN [th[t] EXCEPT !.pc = "Reset"]
                  ELSE ReturnFrom(th[t], "Can't set message"))

CreateSnapDevice_SetMessage(t) ==
    /\ At(t, "CreateSnapDevice", "SetMessage")
    /\ \E ok \in BOOLEAN :
         Local(t, IF ok THEN [th[t] EXCEPT !.pc = "Reset"]
                  ELSE Rollback(th[t], "Can't set message"))

\* (mutant) the run starts without the reset of dmSawExist
CreateSnapDevice_Reset_Missing(t) ==
    /\ At(t, "CreateSnapDevice", "Reset")
    /\ Set(t, [th[t] EXCEPT !.pc = "Run"])
    /\ UNCHANGED <<Engine, Flags, Locks>>

\* dmSawExist = false // reset before the task is run
CreateSnapDevice_Reset(t) ==
    /\ At(t, "CreateSnapDevice", "Reset")
    /\ dmSawExist' = FALSE
    /\ Set(t, [th[t] EXCEPT !.pc = "Run"])
    /\ UNCHANGED <<Engine, dmSawBusy, Locks>>

CreateSnapDevice_Run(t) ==
    /\ At(t, "CreateSnapDevice", "Run")
    /\ Run(t, "Classify", "DeviceTargetMsg", poolName, "create_snap",
           th[t].deviceId, th[t].baseDeviceId)
    /\ UNCHANGED Locks

\* (mutant) the retry skips an id
CreateSnapDevice_Classify_SkipsId(t) ==
    /\ At(t, "CreateSnapDevice", "Classify")
    /\ Local(t, IF ~th[t].runErr THEN [th[t] EXCEPT !.pc = "Resume"]
                ELSE IF dmSawExist
                THEN [th[t] EXCEPT !.deviceId = @ + 2, !.pc = "TaskCreateNamed"]
                ELSE Rollback(th[t], "Error running DeviceCreate (createSnapDevice)"))

\* if dmSawExist { *deviceId++; continue }
\* if doSuspend { ResumeDevice(baseName) }; return fmt.Errorf(...)
\* break
CreateSnapDevice_Classify(t) ==
    /\ At(t, "CreateSnapDevice", "Classify")
    /\ Local(t, IF ~th[t].runErr THEN [th[t] EXCEPT !.pc = "Resume"]
                ELSE IF dmSawExist
                THEN [th[t] EXCEPT !.deviceId = @ + 1, !.pc = "TaskCreateNamed"]
                ELSE Rollback(th[t], "Error running DeviceCreate (createSnapDevice)"))

\* back from the rollback's ResumeDevice, whose result is dropped: return err
CreateSnapDevice_ReturnErr(t) ==
    /\ At(t, "CreateSnapDevice", "ReturnErr")
    /\ Local(t, ReturnFrom(th[t], th[t].err))

\* if doSuspend { if err := ResumeDevice(baseName); err != nil { return err } }
CreateSnapDevice_Resume(t) ==
    /\ At(t, "CreateSnapDevice", "Resume")
    /\ Local(t, IF th[t].doSuspend THEN CallFn(th[t], "ResumeDevice", "Resumed")
                ELSE ReturnFrom(th[t], "nil"))

\* (mutant) the final resume's error is dropped
CreateSnapDevice_Resumed_Swallows(t) ==
    /\ At(t, "CreateSnapDevice", "Resumed")
    /\ Local(t, ReturnFrom(th[t], "nil"))

\* return err, or return nil
CreateSnapDevice_Resumed(t) ==
    /\ At(t, "CreateSnapDevice", "Resumed")
    /\ Local(t, ReturnFrom(th[t], th[t].res))

\* ------------------------------------------------------------------ Task
\* A caller of the exported Task methods: it creates a task, calls the
\* methods in any order and drops the task.  The history keeps the native
\* calls the methods make.
TaskTypes == {"DeviceCreate", "DeviceRemove"}
AddNodeTypes == {"AddNodeOnResume", "AddNodeOnCreate", "other"}

\* func TaskCreate(tasktype TaskType) *Task: nil when DmTaskCreate returns nil
TaskCreate(t) ==
    /\ t \in callers
    /\ th[t].pc = "idle"
    /\ serial => lock = ""
    /\ lock' = IF serial THEN t ELSE lock
    /\ \E tasktype \in TaskTypes, ok \in BOOLEAN :
         Set(t, [Idle EXCEPT !.op = "Task", !.fn = "TaskCreate", !.tasktype = tasktype,
                             !.pc = IF ok THEN "task" ELSE "nil",
                             !.trace = <<EvNative("DmTaskCreate", ok)>>])
    /\ UNCHANGED <<Engine, Flags, callers, serial>>

\* A call of method m with argument arg on the caller's task leaves s.
TaskCall(t, m, arg, s) ==
    /\ th[t].op = "Task" /\ th[t].pc = "task"
    /\ th[t].calls < MaxCalls
    /\ Set(t, [s EXCEPT !.fn = m, !.arg = arg, !.calls = @ + 1])

\* The method's native call returns res: the method returns err unless res is 1.
Setter(t, m, arg, call, err) ==
    \E ok \in BOOLEAN :
        /\ TaskCall(t, m, arg, [th[t] EXCEPT !.res = IF ok THEN "nil" ELSE err,
                                             !.trace = Log(th[t], EvNative(call, ok))])
        /\ UNCHANGED <<Engine, Flags, Locks>>

\* if res := DmTaskRun(t.unmanaged); res != 1 { return ErrTaskRun }; return nil
Task_Run(t) ==
    /\ \E o \in IF th[t].name = "" THEN RunFailures(FALSE)
               ELSE DmTaskRun(th[t].tasktype, th[t].name, "", 0, 0) :
         /\ devs' = o.devs
         /\ thinIds' = o.thinIds
         /\ pool' = o.pool
         /\ DevmapperLogCallback(o)
         /\ TaskCall(t, "Run", "",
                     [th[t] EXCEPT !.res = IF o.ok THEN "nil" ELSE "ErrTaskRun",
                                   !.runErr = ~o.ok, !.logged = Logged(o),
                                   !.trace = Log(th[t], EvRun(th[t].tasktype, 0, o))])
    /\ UNCHANGED Locks

Task_SetName(t) ==
    \E name \in {poolName} :
        \E ok \in BOOLEAN :
            /\ TaskCall(t, "SetName", name,
                        [th[t] EXCEPT !.res = IF ok THEN "nil" ELSE "ErrTaskSetName",
                                      !.name = IF ok THEN name ELSE @,
                                      !.trace = Log(th[t], EvNative("DmTaskSetName", ok))])
            /\ UNCHANGED <<Engine, Flags, Locks>>

Task_SetMessage(t) == Setter(t, "SetMessage", "", "DmTaskSetMessage", "ErrTaskSetMessage")

Task_SetSector(t) == Setter(t, "SetSector", "", "DmTaskSetSector", "ErrTaskSetSector")

Task_SetRo(t) == Setter(t, "SetRo", "", "DmTaskSetRo", "ErrTaskSetRo")

Task_AddTarget(t) == Setter(t, "AddTarget", "", "DmTaskAddTarget", "ErrTaskAddTarget")

\* if addNode != AddNodeOnResume && addNode != AddNodeOnCreate { return ErrInvalidAddNode }
Task_SetAddNode(t) ==
    \E addNode \in AddNodeTypes :
        IF addNode = "other"
        THEN /\ TaskCall(t, "SetAddNode", addNode, [th[t] EXCEPT !.res = "ErrInvalidAddNode"])
             /\ UNCHANGED <<Engine, Flags, Locks>>
        ELSE Setter(t, "SetAddNode", addNode, "DmTaskSetAddNode", "ErrTaskSetAddNode")

\* the native call programs the task with a cookie and stores it in the slot
DmTaskSetCookie(t, arg) ==
    \/ Setter(t, "SetCookie", arg, "DmTaskSetCookie", "ErrTaskSetCookie") /\ th'[t].res # "nil"
    \/ \E c \in Cookies :
         /\ TaskCall(t, "SetCookie", arg,
                     [th[t] EXCEPT !.res = "nil", !.cookie = c,
                                   !.trace = Log(th[t], EvNative("DmTaskSetCookie", TRUE))])
         /\ UNCHANGED <<Engine, Flags, Locks>>

\* (mutant) the native call is made with the nil slot
Task_SetCookie_NoNilCheck(t) ==
    \E cookie \in {"nil", "slot"} : DmTaskSetCookie(t, cookie)

\* if cookie == nil { return ErrNilCookie }
\* if res := DmTaskSetCookie(t.unmanaged, cookie, flags); res != 1 { return ErrTaskSetCookie }
Task_SetCookie(t) ==
    \E cookie \in {"nil", "slot"} :
        IF cookie = "nil"
        THEN /\ TaskCall(t, "SetCookie", cookie, [th[t] EXCEPT !.res = "ErrNilCookie"])
             /\ UNCHANGED <<Engine, Flags, Locks>>
        ELSE DmTaskSetCookie(t, cookie)

\* The caller drops the task; the finalizer destroys it.
Task_destroy(t) ==
    /\ th[t].op = "Task" /\ th[t].pc \in {"task", "nil"}
    /\ Set(t, Idle)
    /\ lock' = IF serial THEN "" ELSE lock
    /\ UNCHANGED <<Engine, Flags, callers, serial>>

\* ================================================================== claims
IsOp(t, f) == Done(t) /\ th[t].op = f
\* positions of the runs of create messages, block-device messages to the pool
Msgs(tr) == PosK(tr, "run", "DeviceTargetMsg")
\* how many positions of S come before i
Before(S, i) == Cardinality({j \in S : j < i})
Last(S) == CHOOSE i \in S : \A j \in S : j <= i
ConfigErrors ==
    {"Can't create task of type DeviceTargetMsg", "Can't set task name pool",
     "Can't set sector", "Can't set message"}
ResumeErrors ==
    {"Can't create task of type DeviceResume", "Can't set task name base",
     "Can't set cookie", "Error running DeviceResume"}
\* the smallest id >= s that is not in T
SmallestFree(s, T) == CHOOSE i \in s .. (MaxId + 1) : i \notin T /\ \A j \in s .. (i - 1) : j \in T

\* The engine of claim C1 during a call: a create message fails with
\* already-exists exactly for the ids taken when the call began, and succeeds
\* otherwise; no configuration step fails.
EngineByTakenSet(s) ==
    /\ s.res \notin ConfigErrors
    /\ \A i \in Msgs(s.trace) :
         LET e == s.trace[i]
         IN  IF e.n \in s.T0 THEN ~e.ok /\ e.exist ELSE e.ok

\* C1: CreateDevice started at id s against an engine that reports
\* already-exists exactly for the taken ids returns success, leaves the
\* smallest free id >= s in the caller's slot and has run exactly
\* (final id - s + 1) create_thin messages, whatever dmSawExist was before.
C1_CreateDeviceConverges ==
    \A t \in Threads :
        (IsOp(t, "CreateDevice") /\ EngineByTakenSet(th[t])) =>
            /\ th[t].res = "nil"
            /\ th[t].deviceId = SmallestFree(th[t].start, th[t].T0)
            /\ Cardinality(Msgs(th[t].trace)) = th[t].deviceId - th[t].start + 1

\* three taken ids in a row, a stale dmSawExist, and the call has returned
C1_Witness ==
    \E t \in Threads :
        /\ IsOp(t, "CreateDevice") /\ EngineByTakenSet(th[t])
        /\ th[t].saw0.exist
        /\ th[t].deviceId = th[t].start + 3
        /\ Cardinality(Msgs(th[t].trace)) = 4

\* C3: RemoveDevice returns ErrBusy exactly when its failed run logged busy,
\* and the generic run error when the failed run did not, whatever dmSawBusy
\* was before the call.
C3_RemoveDeviceBusy ==
    \A t \in Threads :
        (IsOp(t, "RemoveDevice") /\ th[t].runErr) =>
            th[t].res = IF th[t].logged.busy THEN "ErrBusy" ELSE "Error running RemoveDevice"

\* a failed run that logged no busy, after an operation that left dmSawBusy set
C3_Witness ==
    \E t \in Threads :
        /\ IsOp(t, "RemoveDevice") /\ th[t].runErr
        /\ th[t].saw0.busy /\ ~th[t].logged.busy
        /\ th[t].res = "Error running RemoveDevice"

\* ------------------------------------------------------------------ C2, C4-C6, C8, C9
Calls(tr, f) == PosK(tr, "call", f)
Rets(tr, f) == PosK(tr, "ret", f)
\* this call's SuspendDevice returned success
SuspendedByCall(s) == \E i \in Rets(s.trace, "SuspendDevice") : s.trace[i].ok
\* a ResumeDevice of this call returned an error
ResumeFailed(s) == \E i \in Rets(s.trace, "ResumeDevice") : ~s.trace[i].ok
\* the run of a create message succeeded, ending the retry loop
MessageSucceeded(s) ==
    /\ Msgs(s.trace) # {}
    /\ s.trace[Last(Msgs(s.trace))].ok

\* C2: CreateSnapDevice with an existing origin, k already-exists failures
\* and then a success: one suspend before the first message, k+1 messages with
\* ids start .. start+k, no suspend or resume between them, one resume after
\* the successful message, start+k in the caller's slot.
C2_SnapshotRetrySequence ==
    \A t \in Threads :
        (IsOp(t, "CreateSnapDevice") /\ th[t].doSuspend /\ MessageSucceeded(th[t])) =>
            LET tr == th[t].trace
                ms == Msgs(tr)
                k == Cardinality(ms) - 1
                sus == PosK(tr, "run", "DeviceSuspend")
                rcs == Calls(tr, "ResumeDevice")
            IN  /\ Cardinality(sus) = 1 /\ Cardinality(Calls(tr, "SuspendDevice")) = 1
                /\ \A i \in sus : tr[i].ok /\ \A j \in ms : i < j
                /\ \A j \in ms : tr[j].n = th[t].start + Before(ms, j)
                /\ \A j \in ms : j # Last(ms) => ~tr[j].ok /\ tr[j].exist
                /\ Cardinality(rcs) = 1
                /\ \A i \in rcs : \A j \in ms : j < i
                /\ \A i \in PosK(tr, "run", "DeviceResume") : \A j \in ms : j < i
                /\ th[t].deviceId = th[t].start + k

\* the origin was suspended, three ids collided, the fourth message succeeded
C2_Witness ==
    \E t \in Threads :
        /\ IsOp(t, "CreateSnapDevice") /\ th[t].doSuspend /\ MessageSucceeded(th[t])
        /\ Cardinality(Msgs(th[t].trace)) = 4
        /\ th[t].deviceId = th[t].start + 3
        /\ th[t].res = "nil"

\* C4 as stated: whenever CreateSnapDevice returns an error, the origin (not
\* suspended when the call began) is not suspended at the moment of return.
C4_OriginNeverLeftSuspended ==
    \A t \in Threads :
        (IsOp(t, "CreateSnapDevice") /\ th[t].res # "nil" /\ ~th[t].suspended0) =>
            ~devs[baseName].suspended

\* C4 as amended: whenever CreateSnapDevice returns an error, the origin (not
\* suspended when the call began) is not suspended at the moment of return
\* unless a ResumeDevice the call invoked failed.
C4_OriginResumedUnlessResumeFailed ==
    \A t \in Threads :
        (IsOp(t, "CreateSnapDevice") /\ th[t].res # "nil" /\ ~th[t].suspended0) =>
            \/ ~devs[baseName].suspended
            \/ ResumeFailed(th[t])

\* an error return after the call suspended the origin and resumed it again
C4_Witness ==
    \E t \in Threads :
        /\ IsOp(t, "CreateSnapDevice") /\ th[t].res # "nil" /\ ~th[t].suspended0
        /\ SuspendedByCall(th[t]) /\ ~ResumeFailed(th[t])
        /\ ~devs[baseName].suspended

\* C5: on every return path of CreateSnapDevice after its SuspendDevice
\* succeeded, ResumeDevice has been invoked exactly once, and has returned,
\* when the function returns; when the call did not suspend the origin,
\* ResumeDevice is never invoked.
C5_ResumeExactlyOnce ==
    \A t \in Threads :
        IsOp(t, "CreateSnapDevice") =>
            LET tr == th[t].trace
                n == Cardinality(Calls(tr, "ResumeDevice"))
            IN  /\ n = Cardinality(Rets(tr, "ResumeDevice"))
                /\ n = IF SuspendedByCall(th[t]) THEN 1 ELSE 0

\* the SetMessage failure path of a call that had suspended the origin
C5_Witness ==
    \E t \in Threads :
        /\ IsOp(t, "CreateSnapDevice") /\ SuspendedByCall(th[t])
        /\ th[t].res = "Can't set message"
        /\ Cardinality(Calls(th[t].trace, "ResumeDevice")) = 1

\* C6: CreateSnapDevice against an origin whose info query reports
\* non-existence issues no suspend task and no resume task, and still runs
\* the create_snap message (when the message's task can be configured).
C6_AbsentOriginSkipsSuspend ==
    \A t \in Threads :
        (IsOp(t, "CreateSnapDevice") /\ th[t].devinfo = "absent") =>
            LET tr == th[t].trace
            IN  /\ PosK(tr, "task", "DeviceSuspend") = {} /\ PosK(tr, "task", "DeviceResume") = {}
                /\ PosK(tr, "run", "DeviceSuspend") = {} /\ PosK(tr, "run", "DeviceResume") = {}
                /\ Calls(tr, "SuspendDevice") = {} /\ Calls(tr, "ResumeDevice") = {}
                /\ th[t].res \notin ConfigErrors => Msgs(tr) # {}

\* the snapshot of an absent origin was created
C6_Witness ==
    \E t \in Threads :
        /\ IsOp(t, "CreateSnapDevice") /\ th[t].devinfo = "absent"
        /\ MessageSucceeded(th[t])
        /\ th[t].res = "nil"

\* C8: when the rollback's resume of the suspended origin fails, the error
\* CreateSnapDevice returns is that resume failure.
C8_RollbackResumeFailureReported ==
    \A t \in Threads :
        (IsOp(t, "CreateSnapDevice") /\ th[t].err # "nil" /\ ResumeFailed(th[t])) =>
            th[t].res \in ResumeErrors

\* C9: when the create_snap message succeeded and the final resume of the
\* suspended origin fails, CreateSnapDevice returns the resume error, the
\* caller's slot holds the id of the created snapshot, and nothing is run
\* after that resume.
C9_FinalResumeFailureSurfaced ==
    \A t \in Threads :
        (IsOp(t, "CreateSnapDevice") /\ MessageSucceeded(th[t]) /\ ResumeFailed(th[t])) =>
            LET tr == th[t].trace
            IN  /\ th[t].res \in ResumeErrors
                /\ th[t].deviceId = tr[Last(Msgs(tr))].n
                /\ th[t].deviceId \in thinIds
                /\ Cardinality(Calls(tr, "ResumeDevice")) = 1
                /\ Cardinality(Calls(tr, "SuspendDevice")) = 1
                /\ tr[Len(tr)] = EvRet("ResumeDevice", th[t].res)
                /\ \A j \in Msgs(tr) : j < Last(Calls(tr, "ResumeDevice"))

\* the snapshot was created after a collision and the resume's run failed
C9_Witness ==
    \E t \in Threads :
        /\ IsOp(t, "CreateSnapDevice") /\ MessageSucceeded(th[t]) /\ ResumeFailed(th[t])
        /\ th[t].res = "Error running DeviceResume"
        /\ th[t].deviceId > th[t].start
        /\ devs[baseName].suspended

\* ------------------------------------------------------------------ C7, C10
CookieOps == {"RemoveDevice", "CreatePool", "ActivateDevice", "ResumeDevice"}

\* C7: in RemoveDevice, CreatePool, ActivateDevice and ResumeDevice, once
\* SetCookie has succeeded UdevWait is invoked exactly once, on the cookie the
\* task was programmed with, after Run has returned and as the last thing
\* before the operation returns, whether Run succeeded or failed; UdevWait is
\* never invoked when SetCookie was not reached or failed.
C7_WaitOnceOnTheCookie ==
    \A t \in Threads : \A f \in CookieOps :
        Returned(t, f) =>
            LET fr == Frame(th[t].trace, f)
                sc == Pos(fr, "setcookie")
                ws == Pos(fr, "wait")
                rs == Pos(fr, "run")
            IN  IF sc = {} THEN ws = {}
                ELSE /\ Cardinality(sc) = 1 /\ Cardinality(ws) = 1 /\ Cardinality(rs) = 1
                     /\ \A c \in sc, r \in rs, w \in ws :
                          /\ c < r /\ r < w /\ w = Len(fr)
                          /\ fr[w].n = fr[c].n
                          /\ fr[w].n = th[t].cookie

\* RemoveDevice's run failed and the wait on its cookie was made all the same
C7_Witness ==
    \E t \in Threads :
        /\ Returned(t, "RemoveDevice") /\ th[t].runErr
        /\ th[t].cookie = MaxCookie
        /\ th[t].trace[Len(th[t].trace)] = EvWait(MaxCookie, TRUE)

\* C10: in RemoveDevice, CreatePool, ActivateDevice and ResumeDevice, when the
\* UdevWait on the operation's cookie fails the operation returns an error.
C10_WaitFailureSurfaced ==
    \A t \in Threads : \A f \in CookieOps :
        Returned(t, f) =>
            LET fr == Frame(th[t].trace, f)
            IN  (\E w \in Pos(fr, "wait") : ~fr[w].ok) => th[t].res # "nil"

\* ------------------------------------------------------------------ C11
ClassifyOps == {"RemoveDevice", "CreateDevice", "CreateSnapDevice"}

\* C11: when the failed run of RemoveDevice, CreateDevice or CreateSnapDevice
\* logged busy, the classification of that run surfaces ErrBusy and does not
\* start another attempt, whether or not already-exists was logged too.
C11_BusyTakesPrecedence ==
    [][\A t \in Threads : \A f \in ClassifyOps :
          (At(t, f, "Classify") /\ th[t].runErr /\ th[t].logged.busy /\ th'[t] # th[t]) =>
              /\ ~(th'[t].fn = f /\ th'[t].pc = "TaskCreateNamed")
              /\ "ErrBusy" \in {th'[t].res, th'[t].err}]_vars

\* ------------------------------------------------------------------ C12
\* the operations that build one task and run it
TaskOps ==
    {"CreatePool", "ReloadPool", "SetTransactionId", "CreateDevice", "DeleteDevice",
     "ActivateDevice", "RemoveDevice", "ResumeDevice", "SuspendDevice"}
\* what an operation returns when the run of its task failed
RunErrors ==
    {"ErrBusy", "Error running RemoveDevice", "Error running DeviceResume",
     "Error running DeviceSuspend", "Error running DeviceCreate (CreatePool)",
     "Error running DeviceCreate", "Error running SetTransactionId",
     "Error running CreateDevice", "Error running DeleteDevice",
     "Error running DeviceCreate (ActivateDevice)"}
\* what TaskCreateNamed returns with a nil task
CreationErrors == {o.err : o \in UNION {TaskCreateNamed(k, n) :
                       k \in {"DeviceCreate", "DeviceReload", "DeviceRemove", "DeviceResume",
                              "DeviceSuspend", "DeviceTargetMsg"}, n \in Names}} \ {"nil"}

\* the operation returned the error of a failed task creation or configuration step
ConfigFailed(t, f) == Returned(t, f) /\ th[t].res \notin (RunErrors \cup {"nil"})

\* the task that failed was never run: every task created before it was run
\* once and failed, and the failed task has no run
NeverRun(t, f) ==
    LET fr == Frame(th[t].trace, f)
        tasks == Pos(fr, "task")
        runs == Pos(fr, "run")
    IN  /\ \A i \in runs : ~fr[i].ok
        /\ Cardinality(runs) =
              Cardinality(tasks) - (IF th[t].res \in CreationErrors THEN 0 ELSE 1)
        /\ th[t].res \notin CreationErrors => \A i \in runs : i < Last(tasks)

\* C12: in CreatePool, ReloadPool, SetTransactionId, CreateDevice, DeleteDevice,
\* ActivateDevice, RemoveDevice, ResumeDevice and SuspendDevice, when task
\* creation or a configuration step fails the operation returns that error
\* and the task is never run; the engine's state changes only in the step
\* that runs a task.
C12_ConfigFailureNeverRuns ==
    /\ [](\A t \in Threads : \A f \in TaskOps : ConfigFailed(t, f) => NeverRun(t, f))
    /\ [][Engine' # Engine =>
            \E t \in Threads :
                /\ th[t].pc = "Run"
                /\ Len(th'[t].trace) = Len(th[t].trace) + 1
                /\ th'[t].trace[Len(th'[t].trace)].e = "run"]_vars

\* CreateDevice's second attempt, after a collision, fails at SetMessage
C12_Witness ==
    \E t \in Threads :
        /\ ConfigFailed(t, "CreateDevice")
        /\ th[t].res = "Can't set message"
        /\ th[t].deviceId = th[t].start + 1
        /\ thinIds = th[t].T0

\* ------------------------------------------------------------------ C15
\* C15: GetStatus returns the non-existing-device error, without a
\* GetNextTarget, when the info of its successful run says the device does not
\* exist; GetNextTarget is called, once and with next = 0, exactly when task
\* creation, Run and GetInfo succeeded and the device exists.
C15_GetStatusNonExisting ==
    \A t \in Threads :
        Returned(t, "GetStatus") =>
            LET tr == th[t].trace
                nt == Pos(tr, "nexttarget")
                allOk == /\ Pos(tr, "task") # {}
                         /\ \E i \in Pos(tr, "run") : tr[i].ok
                         /\ \E i \in Pos(tr, "getinfo") : tr[i].ok
            IN  /\ (allOk /\ ~devs[th[t].name].exists) =>
                       th[t].res = "Non existing device" /\ nt = {}
                /\ (nt # {}) = (allOk /\ devs[th[t].name].exists)
                /\ Cardinality(nt) <= 1
                /\ \A i \in nt : tr[i].n = 0 /\ th[t].res = "nil"

\* the status of a device that does not exist was asked for and the run succeeded
C15_Witness ==
    \E t \in Threads :
        /\ Returned(t, "GetStatus")
        /\ th[t].res = "Non existing device"
        /\ ~th[t].runErr /\ Pos(th[t].trace, "getinfo") # {}

\* ------------------------------------------------------------------ C13, C14
\* the native calls a task's methods have made
Natives(tr) == Pos(tr, "native") \cup Pos(tr, "run")

\* C13: once Run has been invoked on a task, no later method call on that
\* task reaches the native engine: the run is the last native call made on it.
C13_TaskExecutedAtMostOnce ==
    \A t \in Threads :
        th[t].op = "Task" =>
            \A i \in Pos(th[t].trace, "run") : \A j \in Natives(th[t].trace) : j <= i

\* C14: SetCookie with a nil cookie slot returns ErrNilCookie, makes no native
\* call and leaves the task as it was.
C14_NilCookieRejected ==
    [][\A t \in Threads :
          (th[t].op = "Task" /\ th'[t].calls = th[t].calls + 1
              /\ th'[t].fn = "SetCookie" /\ th'[t].arg = "nil") =>
              /\ th'[t].res = "ErrNilCookie"
              /\ th'[t].trace = th[t].trace
              /\ th'[t].cookie = th[t].cookie
              /\ th'[t].name = th[t].name
              /\ UNCHANGED Engine]_vars

\* a task already programmed with a cookie got SetCookie(nil)
C14_Witness ==
    \E t \in Threads :
        /\ th[t].op = "Task" /\ th[t].fn = "SetCookie" /\ th[t].arg = "nil"
        /\ th[t].res = "ErrNilCookie"
        /\ th[t].cookie = MaxCookie
        /\ th[t].trace[Len(th[t].trace)] = EvNative("DmTaskSetCookie", TRUE)

\* ------------------------------------------------------------------ C16
\* C16: whenever CreateSnapDevice runs a create_snap message while the origin
\* exists in the engine, the origin is suspended at that moment.
C16_SnapshotOfQuiescedOrigin ==
    [][\A t \in Threads :
          (At(t, "CreateSnapDevice", "Run") /\ th'[t].pc = "Classify"
              /\ devs[baseName].exists) =>
              devs[baseName].suspended]_vars

\* ------------------------------------------------------------------ C18
\* C18: when the run of RemoveDevice, CreateDevice or CreateSnapDevice begins,
\* dmSawBusy and dmSawExist are both false.
C18_BothFlagsClearAtRun ==
    \A t \in Threads : \A f \in ClassifyOps :
        At(t, f, "Run") => ~dmSawBusy /\ ~dmSawExist

\* ------------------------------------------------------------------ C17
\* The flag an operation is about to classify its failed run with is not what
\* its own run logged.
Misattributes(t) ==
    /\ th[t].pc = "Classify" /\ th[t].fn \in ClassifyOps
    /\ th[t].runErr
    /\ IF th[t].fn = "RemoveDevice" THEN dmSawBusy # th[t].logged.busy
       ELSE dmSawExist # th[t].logged.exist

\* C17: when every operation runs under one global lock, no operation
\* classifies its failed run with a flag value another thread produced;
\* without the lock two threads' reset, run and inspect steps interleave and
\* such a misattribution is reachable.
C17_NoMisattributionUnderLock ==
    \A t \in Threads : serial => ~Misattributes(t)

\* without the lock: CreateDevice is about to retry with the next id although
\* its own run did not log already-exists, the other thread's run did
C17_Witness ==
    \E t \in Threads : \E u \in Threads \ {t} :
        /\ ~serial
        /\ Misattributes(t)
        /\ th[t].fn = "CreateDevice" /\ ~th[t].logged.exist /\ dmSawExist
        /\ th[u].fn = "CreateDevice" /\ th[u].logged.exist

\* ------------------------------------------------------------------ C20
\* the operations that allocate an id in the caller's slot
SlotOps == {"CreateDevice", "CreateSnapDevice"}
\* the runs of create messages that failed with already-exists
Collisions(tr) == {i \in Msgs(tr) : ~tr[i].ok /\ tr[i].exist}

\* The slot holds the starting id plus the collisions classified so far.
SlotCountsCollisions(t) ==
    LET tr == th[t].trace
        pending == /\ At(t, th[t].op, "Classify")
                   /\ Msgs(tr) # {} /\ Last(Msgs(tr)) \in Collisions(tr)
    IN  /\ th[t].deviceId =
              th[t].start + Cardinality(Collisions(tr)) - (IF pending THEN 1 ELSE 0)
        /\ (Done(t) /\ th[t].res = "nil") =>
              \A id \in th[t].start .. (th[t].deviceId - 1) :
                  \E i \in Collisions(tr) : tr[i].n = id

\* C20: in CreateDevice and CreateSnapDevice the caller's slot never
\* decreases and grows by one exactly when a run that failed with
\* already-exists is classified: it holds start + k after k collisions, also
\* when the call returns an error, and on success every id from start up to
\* the final id was reported as existing during the call.
C20_SlotTracksCollisions ==
    /\ [](\A t \in Threads : th[t].op \in SlotOps => SlotCountsCollisions(t))
    /\ [][\A t \in Threads :
            (th[t].op \in SlotOps /\ th'[t].op = th[t].op) =>
                /\ th'[t].deviceId \in {th[t].deviceId, th[t].deviceId + 1}
                /\ th'[t].deviceId # th[t].deviceId =>
                      /\ At(t, th[t].op, "Classify")
                      /\ th[t].runErr /\ th[t].logged.exist]_vars

\* CreateSnapDevice returned the run error after two collisions
C20_Witness ==
    \E t \in Threads :
        /\ IsOp(t, "CreateSnapDevice")
        /\ th[t].res = "Error running DeviceCreate (createSnapDevice)"
        /\ Cardinality(Collisions(th[t].trace)) = 2
        /\ th[t].deviceId = th[t].start + 2

\* ------------------------------------------------------------------ C19
\* the call got as far as its retry loop
LoopEntered(t) ==
    th[t].op = "CreateDevice" \/ \A i \in Rets(th[t].trace, "SuspendDevice") : th[t].trace[i].ok
\* an attempt of the loop succeeded, or failed with an error other than
\* already-exists: its run, the creation of its task or a configuration step
NonCollisionAttempt(t) ==
    \/ th[t].res \in ConfigErrors
    \/ \E i \in Msgs(th[t].trace) : i \notin Collisions(th[t].trace)

\* C19: CreateDevice and CreateSnapDevice return exactly through an attempt
\* that succeeds or fails with an error other than already-exists.  With
\* finitely many ids taken they eventually return; a call has not returned
\* while every attempt collided, and against an engine that reports
\* already-exists for every id the loop goes on with the next id each time
\* (followed here up to MaxId + 2).
C19_ReturnsIffNonCollision ==
    /\ \A t \in Threads : (th[t].op \in SlotOps /\ ~pool.allTaken) ~> Done(t)
    /\ \A t \in Threads : (th[t].op \in SlotOps) ~> (Done(t) \/ th[t].deviceId = MaxId + 2)
    /\ [](\A t \in Threads :
            (th[t].op \in SlotOps /\ Done(t) /\ LoopEntered(t)) => NonCollisionAttempt(t))

\* every id is taken: CreateDevice has run three messages, each with the next
\* id, all answered already-exists, and is still in its loop
C19_Witness ==
    \E t \in Threads :
        /\ pool.allTaken
        /\ At(t, "CreateDevice", "Classify")
        /\ Msgs(th[t].trace) = Collisions(th[t].trace)
        /\ th[t].deviceId = MaxId + 2
        /\ \A id \in MaxId .. (MaxId + 2) : \E i \in Msgs(th[t].trace) : th[t].trace[i].n = id

\* ------------------------------------------------------------------ next
Next ==
    \E t \in Threads :
        \/ Call_RemoveDevice(t)
        \/ RemoveDevice_TaskCreateNamed(t)
        \/ RemoveDevice_SetCookie(t)
        \/ RemoveDevice_Reset(t)
        \/ RemoveDevice_Run(t)
        \/ RemoveDevice_Classify(t)
        \/ Call_ResumeDevice(t)
        \/ ResumeDevice_TaskCreateNamed(t)
        \/ ResumeDevice_SetCookie(t)
        \/ ResumeDevice_Run(t)
        \/ ResumeDevice_Return(t)
        \/ Call_SuspendDevice(t)
        \/ SuspendDevice_TaskCreateNamed(t)
        \/ SuspendDevice_Run(t)
        \/ SuspendDevice_Return(t)
        \/ GetInfo_TaskCreateNamed(t)
        \/ GetInfo_Run(t)
        \/ GetInfo_GetInfo(t)
        \/ Call_CreatePool(t)
        \/ CreatePool_TaskCreateNamed(t)
        \/ CreatePool_GetBlockDeviceSize(t)
        \/ CreatePool_AddTarget(t)
        \/ CreatePool_SetCookie(t)
        \/ CreatePool_Run(t)
        \/ CreatePool_Return(t)
        \/ Call_ActivateDevice(t)
        \/ ActivateDevice_TaskCreateNamed(t)
        \/ ActivateDevice_AddTarget(t)
        \/ ActivateDevice_SetAddNode(t)
        \/ ActivateDevice_SetCookie(t)
        \/ ActivateDevice_Run(t)
        \/ ActivateDevice_Return(t)
        \/ Call_DeleteDevice(t)
        \/ DeleteDevice_TaskCreateNamed(t)
        \/ DeleteDevice_SetSector(t)
        \/ DeleteDevice_SetMessage(t)
        \/ DeleteDevice_Run(t)
        \/ DeleteDevice_Return(t)
        \/ Call_CreateDevice(t)
        \/ CreateDevice_TaskCreateNamed(t)
        \/ CreateDevice_SetSector(t)
        \/ CreateDevice_SetMessage(t)
        \/ CreateDevice_Reset(t)
        \/ CreateDevice_Run(t)
        \/ CreateDevice_Classify(t)
        \/ Call_CreateSnapDevice(t)
        \/ CreateSnapDevice_GetInfo(t)
        \/ CreateSnapDevice_doSuspend(t)
        \/ CreateSnapDevice_Suspended(t)
        \/ CreateSnapDevice_TaskCreateNamed(t)
        \/ CreateSnapDevice_SetSector(t)
        \/ CreateSnapDevice_SetMessage(t)
        \/ CreateSnapDevice_Reset(t)
        \/ CreateSnapDevice_Run(t)
        \/ CreateSnapDevice_Classify(t)
        \/ CreateSnapDevice_ReturnErr(t)
        \/ CreateSnapDevice_Resume(t)
        \/ CreateSnapDevice_Resumed(t)
        \/ DeferredUdevWait(t)
        \/ ReturnToCaller(t)
        \/ Finish(t)

Spec == Init /\ [][Next]_vars

\* The operations that build one task and run it, and the status query.
NextLibrary ==
    \E t \in Threads :
        \/ Call_RemoveDevice(t)
        \/ RemoveDevice_TaskCreateNamed(t)
        \/ RemoveDevice_SetCookie(t)
        \/ RemoveDevice_Reset(t)
        \/ RemoveDevice_Run(t)
        \/ RemoveDevice_Classify(t)
        \/ Call_ResumeDevice(t)
        \/ ResumeDevice_TaskCreateNamed(t)
        \/ ResumeDevice_SetCookie(t)
        \/ ResumeDevice_Run(t)
        \/ ResumeDevice_Return(t)
        \/ Call_SuspendDevice(t)
        \/ SuspendDevice_TaskCreateNamed(t)
        \/ SuspendDevice_Run(t)
        \/ SuspendDevice_Return(t)
        \/ Call_CreatePool(t)
        \/ CreatePool_TaskCreateNamed(t)
        \/ CreatePool_GetBlockDeviceSize(t)
        \/ CreatePool_AddTarget(t)
        \/ CreatePool_SetCookie(t)
        \/ CreatePool_Run(t)
        \/ CreatePool_Return(t)
        \/ Call_ReloadPool(t)
        \/ ReloadPool_TaskCreateNamed(t)
        \/ ReloadPool_GetBlockDeviceSize(t)
        \/ ReloadPool_AddTarget(t)
        \/ ReloadPool_Run(t)
        \/ ReloadPool_Return(t)
        \/ Call_SetTransactionId(t)
        \/ SetTransactionId_TaskCreateNamed(t)
        \/ SetTransactionId_SetSector(t)
        \/ SetTransactionId_SetMessage(t)
        \/ SetTransactionId_Run(t)
        \/ SetTransactionId_Return(t)
        \/ Call_ActivateDevice(t)
        \/ ActivateDevice_TaskCreateNamed(t)
        \/ ActivateDevice_AddTarget(t)
        \/ ActivateDevice_SetAddNode(t)
        \/ ActivateDevice_SetCookie(t)
        \/ ActivateDevice_Run(t)
        \/ ActivateDevice_Return(t)
        \/ Call_DeleteDevice(t)
        \/ DeleteDevice_TaskCreateNamed(t)
        \/ DeleteDevice_SetSector(t)
        \/ DeleteDevice_SetMessage(t)
        \/ DeleteDevice_Run(t)
        \/ DeleteDevice_Return(t)
        \/ Call_CreateDevice(t)
        \/ CreateDevice_TaskCreateNamed(t)
        \/ CreateDevice_SetSector(t)
        \/ CreateDevice_SetMessage(t)
        \/ CreateDevice_Reset(t)
        \/ CreateDevice_Run(t)
        \/ CreateDevice_Classify(t)
        \/ Call_GetStatus(t)
        \/ GetStatus_TaskCreateNamed(t)
        \/ GetStatus_Run(t)
        \/ GetStatus_GetInfo(t)
        \/ GetStatus_Exists(t)
        \/ GetStatus_GetNextTarget(t)
        \/ DeferredUdevWait(t)
        \/ Finish(t)

SpecLibrary == Init /\ [][NextLibrary]_vars

\* A caller of the Task methods.
NextTask ==
    \E t \in Threads :
        \/ TaskCreate(t)
        \/ Task_Run(t)
        \/ Task_SetName(t)
        \/ Task_SetMessage(t)
        \/ Task_SetSector(t)
        \/ Task_SetCookie(t)
        \/ Task_SetAddNode(t)
        \/ Task_SetRo(t)
        \/ Task_AddTarget(t)
        \/ Task_destroy(t)

SpecTask == Init /\ [][NextTask]_vars

\* Two threads in the operations that classify a failed run through the
\* process-wide flags; a retry loop is followed up to two ids past the id space.
NextConcurrent ==
    \E t \in Threads :
      /\
        \/ Call_RemoveDevice(t)
        \/ RemoveDevice_TaskCreateNamed(t)
        \/ RemoveDevice_SetCookie(t)
        \/ RemoveDevice_Reset(t)
        \/ RemoveDevice_Run(t)
        \/ RemoveDevice_Classify(t)
        \/ Call_CreateDevice_LastId(t)
        \/ CreateDevice_TaskCreateNamed(t)
        \/ CreateDevice_SetSector(t)
        \/ CreateDevice_SetMessage(t)
        \/ CreateDevice_Reset(t)
        \/ CreateDevice_Run(t)
        \/ CreateDevice_Classify(t)
        \/ DeferredUdevWait(t)
        \/ Finish(t)
      /\ th'[t].deviceId <= MaxId + 2

SpecConcurrent == InitConcurrent /\ [][NextConcurrent]_vars

\* One call of CreateDevice or CreateSnapDevice; a retry loop is followed up
\* to two ids past MaxId.
NextLive ==
    \E t \in Threads :
      /\
        \/ Call_CreateDevice(t)
        \/ CreateDevice_TaskCreateNamed(t)
        \/ CreateDevice_SetSector(t)
        \/ CreateDevice_SetMessage(t)
        \/ CreateDevice_Reset(t)
        \/ CreateDevice_Run(t)
        \/ CreateDevice_Classify(t)
        \/ Call_CreateSnapDevice(t)
        \/ CreateSnapDevice_GetInfo(t)
        \/ CreateSnapDevice_doSuspend(t)
        \/ CreateSnapDevice_Suspended(t)
        \/ CreateSnapDevice_TaskCreateNamed(t)
        \/ CreateSnapDevice_SetSector(t)
        \/ CreateSnapDevice_SetMessage(t)
        \/ CreateSnapDevice_Reset(t)
        \/ CreateSnapDevice_Run(t)
        \/ CreateSnapDevice_Classify(t)
        \/ CreateSnapDevice_ReturnErr(t)
        \/ CreateSnapDevice_Resume(t)
        \/ CreateSnapDevice_Resumed(t)
        \/ GetInfo_TaskCreateNamed(t)
        \/ GetInfo_Run(t)
        \/ GetInfo_GetInfo(t)
        \/ SuspendDevice_TaskCreateNamed(t)
        \/ SuspendDevice_Run(t)
        \/ SuspendDevice_Return(t)
        \/ ResumeDevice_TaskCreateNamed(t)
        \/ ResumeDevice_SetCookie(t)
        \/ ResumeDevice_Run(t)
        \/ ResumeDevice_Return(t)
        \/ DeferredUdevWait(t)
        \/ ReturnToCaller(t)
      /\ th'[t].deviceId <= MaxId + 2

\* A call that has started keeps running: the thread is scheduled and the
\* native calls return.
SpecLive == InitLive /\ [][NextLive]_vars /\ WF_vars(NextLive)
====
